---- MODULE Spec2Model ----
(***************************************************************************)
(* The parallax interaction engine (BannerEngine.ts) and the particle      *)
(* simulation it supervises (ParticleSystem.ts), as one state machine.     *)
(* Every public method, DOM event handler, animation-frame callback and    *)
(* promise continuation is one action; JavaScript runs each to completion. *)
(***************************************************************************)
EXTENDS Integers, Sequences, FiniteSets, TLC

(***************************************************************************)
(* Numbers.  The code computes with JavaScript numbers; the model computes *)
(* the same expressions exactly, over rationals <<numerator, denominator>> *)
(* in lowest terms with a positive denominator.                            *)
(***************************************************************************)
Abs(n) == IF n < 0 THEN -n ELSE n

RECURSIVE GCD(_, _)
GCD(a, b) == IF b = 0 THEN a ELSE GCD(b, a % b)

Rat(n, d) ==
  LET g == GCD(Abs(n), Abs(d))
      s == IF d < 0 THEN -1 ELSE 1
  IN  <<(s * n) \div g, (s * d) \div g>>

Num(n) == <<n, 1>>
Zero == Num(0)
One == Num(1)
RAdd(p, q) == Rat(p[1] * q[2] + q[1] * p[2], p[2] * q[2])
RSub(p, q) == Rat(p[1] * q[2] - q[1] * p[2], p[2] * q[2])
RMul(p, q) == Rat(p[1] * q[1], p[2] * q[2])
RDiv(p, q) == Rat(p[1] * q[2], p[2] * q[1])
RPow4(p) == RMul(RMul(p, p), RMul(p, p))
RLess(p, q) == p[1] * q[2] < q[1] * p[2]
RMin(p, q) == IF RLess(q, p) THEN q ELSE p
Truthy(p) == p[1] # 0

\* An optional value: <<>> is null/undefined, <<v>> is v.
None == <<>>
Some(v) == <<v>>
IsSome(o) == Len(o) = 1
Val(o) == o[1]

(***************************************************************************)
(* Bounds of the model.                                                    *)
(***************************************************************************)
\* pointer-leave / blur events are delivered while the clock is at most
\* MaxTicks frame intervals; homing loops started by then run to their end.
MaxTicks == 1
\* ParticleSystem objects constructed during one behaviour.
MaxSystems == 2

\* Math.random() draws the model takes.
RandomDraws == {Rat(0, 1), Rat(1, 2)}
\* pageX of pointer events.
PageXs == {0, 250}
\* Viewports the window takes: innerWidth and the container's client box.
Viewports ==
  { [innerWidth |-> 1000, clientWidth |-> 400, clientHeight |-> 200],
    [innerWidth |-> 3300, clientWidth |-> 1000, clientHeight |-> 100] }
InitialViewport == [innerWidth |-> 1000, clientWidth |-> 400, clientHeight |-> 200]

(***************************************************************************)
(* Program constants.                                                      *)
(***************************************************************************)
duration == 300
baseWidth == 1650
\* 180 / Math.PI, to one decimal place.
DEG2RAD == Rat(573, 10)

\* Intervals (ms) between the timestamps of successive homing frames.
FrameDeltas == {duration \div 2, duration}
\* The clock value up to which pointer-leave / blur events are delivered.
LastLeaveTime == MaxTicks * (duration \div 2)

(***************************************************************************)
(* Descriptors handed to updateData.  An absent optional coefficient and a *)
(* coefficient 0 are both falsy in the code and are both written Zero.     *)
(***************************************************************************)
ImageLayerA ==
  [ type |-> "image", src |-> "/a.png", width |-> 100, height |-> 50,
    transform |-> <<1, 0, 0, 1, 100, 50>>,
    opacity |-> Some(<<Rat(1, 5), Rat(4, 5)>>), blur |-> 0,
    a |-> Rat(1, 20), g |-> Rat(1, 50), f |-> Rat(1, 1000), deg |-> Rat(1, 500) ]

VideoLayerB ==
  [ type |-> "video", src |-> "/b.webm", width |-> 200, height |-> 100,
    transform |-> <<2, 0, 0, 2, -40, 0>>,
    opacity |-> None, blur |-> 2,
    a |-> Rat(-1, 10), g |-> Zero, f |-> Zero, deg |-> Zero ]

ParticleConfigP ==
  [ type |-> "particle", srcs |-> <<"/p.png">>, count |-> 1,
    speedRange |-> <<150, 150>>, angleRange |-> <<0, 0>>,
    sizeRange |-> <<1, 1>>, opacityRange |-> <<1, 1>> ]

SimpleVideoDto ==
  [ type |-> "simple-video", payload |-> [mode |-> "simple-video", src |-> "/v.mp4"] ]
ParallaxDto ==
  [ type |-> "parallax", payload |-> <<ImageLayerA, ParticleConfigP, VideoLayerB>> ]
UnknownDto ==
  [ type |-> "carousel", payload |-> <<>> ]
ParallaxPlainDto ==
  [ type |-> "parallax", payload |-> <<ImageLayerA, VideoLayerB>> ]
(***************************************************************************)
(* Parsed data.json files, as the loader fetches them: layer entries carry *)
(* a tagName and no type, a particle entry carries type "particle".        *)
(***************************************************************************)
RawImageA ==
  [ tagName |-> "img", src |-> "/a.png", width |-> 100, height |-> 50,
    transform |-> <<1, 0, 0, 1, 100, 50>>,
    opacity |-> Some(<<Rat(1, 5), Rat(4, 5)>>), blur |-> 0,
    a |-> Rat(1, 20), g |-> Rat(1, 50), f |-> Rat(1, 1000), deg |-> Rat(1, 500) ]

RawVideoB ==
  [ tagName |-> "video", src |-> "/b.webm", width |-> 200, height |-> 100,
    transform |-> <<2, 0, 0, 2, -40, 0>>,
    opacity |-> None, blur |-> 2,
    a |-> Rat(-1, 10), g |-> Zero, f |-> Zero, deg |-> Zero ]

RawArray(items) == [isArray |-> TRUE, mode |-> "", src |-> "", items |-> items]
RawSimpleVideo ==
  [isArray |-> FALSE, mode |-> "simple-video", src |-> "/v.mp4", items |-> <<>>]
RawOther == [isArray |-> FALSE, mode |-> "", src |-> "", items |-> <<>>]
RawLayers == RawArray(<<RawImageA, RawVideoB>>)
RawWithParticle == RawArray(<<RawImageA, ParticleConfigP, RawVideoB>>)
RawDatasets == {RawSimpleVideo, RawOther, RawLayers, RawWithParticle}

\* A parallax descriptor with a particle entry and no ordinary layer.
ParticleOnlyDto ==
  [ type |-> "parallax", payload |-> <<ParticleConfigP>> ]
\* The descriptors without and with a particle entry.
PlainDescriptors == {SimpleVideoDto, ParallaxPlainDto, UnknownDto}
ParticleDescriptors == {SimpleVideoDto, ParallaxDto, UnknownDto}
\* A particle entry whose particles drift sideways, to the left or to the
\* right by the draw.
ParticleConfigD ==
  [ type |-> "particle", srcs |-> <<"/p.png">>, count |-> 1,
    speedRange |-> <<150, 150>>, angleRange |-> <<-45, 135>>,
    sizeRange |-> <<1, 1>>, opacityRange |-> <<1, 1>> ]
DriftDto ==
  [ type |-> "parallax", payload |-> <<ParticleConfigD>> ]

\* naturalWidth / naturalHeight of a loaded particle image.
NaturalSize == [w |-> 50, h |-> 50]

(***************************************************************************)
(* State.                                                                  *)
(***************************************************************************)
VARIABLES
  container,        \* BannerEngine.container: TRUE found, FALSE null
  allLayersData,    \* BannerEngine.allLayersData
  layers,           \* BannerEngine.layers: None, or Some(n): the n .layer elements
  compensate,       \* BannerEngine.compensate
  simpleVideoMode,  \* BannerEngine.simpleVideoMode
  particleSystem,   \* BannerEngine._particleSystem: 0 null, else index into systems
  particleCanvas,   \* BannerEngine._particleCanvas: 0 null, else a canvas id
  state,            \* BannerEngine.state: initX, moveX, startTime, rafId
  dom,              \* the container's subtree
  listeners,        \* registered (target, event type) listeners
  rafQueue,         \* the host's pending animation-frame callbacks
  systems,          \* every ParticleSystem constructed so far
  window,           \* innerWidth and the container's client box
  now,              \* timestamp of the latest homing frame
  fx,               \* effects of the latest updateData/destroy, in program order
  thrown,           \* the latest call ended by throwing
  life,             \* "constructed", "started" (start() called) or "destroyed"
  lastEvent         \* the latest call or dispatched event

vars ==
  << container, allLayersData, layers, compensate, simpleVideoMode, particleSystem,
     particleCanvas, state, dom, listeners, rafQueue, systems, window, now, fx,
     thrown, life, lastEvent >>

\* The program's own state: everything but the observation variables.
progVars ==
  << container, allLayersData, layers, compensate, simpleVideoMode, particleSystem,
     particleCanvas, state, dom, listeners, rafQueue, systems >>

\* The state as one record, as the handlers below transform it.
World ==
  [ container |-> container, allLayersData |-> allLayersData, layers |-> layers,
    compensate |-> compensate, simpleVideoMode |-> simpleVideoMode,
    particleSystem |-> particleSystem, particleCanvas |-> particleCanvas,
    state |-> state, dom |-> dom, listeners |-> listeners, rafQueue |-> rafQueue,
    systems |-> systems, window |-> window, now |-> now, fx |-> <<>>,
    thrown |-> FALSE ]

Commit(w, ev) ==
  /\ container' = w.container
  /\ allLayersData' = w.allLayersData
  /\ layers' = w.layers
  /\ compensate' = w.compensate
  /\ simpleVideoMode' = w.simpleVideoMode
  /\ particleSystem' = w.particleSystem
  /\ particleCanvas' = w.particleCanvas
  /\ state' = w.state
  /\ dom' = w.dom
  /\ listeners' = w.listeners
  /\ rafQueue' = w.rafQueue
  /\ systems' = w.systems
  /\ window' = w.window
  /\ now' = w.now
  /\ fx' = IF ev \in {"updateData", "destroy"} THEN w.fx ELSE <<>>
  /\ thrown' = w.thrown
  /\ life' = IF ev = "start" THEN "started"
             ELSE IF ev = "destroy" THEN "destroyed" ELSE life
  /\ lastEvent' = ev

(***************************************************************************)
(* The host: animation-frame requests.  Handles are fresh: a new handle    *)
(* differs from every handle still pending or still held in a rafId field. *)
(***************************************************************************)
HeldHandles(w) ==
  {w.state.rafId} \cup {f.id : f \in w.rafQueue}
    \cup {w.systems[i].rafId : i \in 1..Len(w.systems)}

rafHandle(w) ==
  CHOOSE h \in 1..(Cardinality(HeldHandles(w)) + 1) :
    /\ h \notin HeldHandles(w)
    /\ \A k \in 1..(h - 1) : k \in HeldHandles(w)

\* requestAnimationFrame(cb): the callback joins the queue under rafHandle(w).
requestAnimationFrame(w, cb, ps) ==
  [w EXCEPT !.rafQueue = @ \cup {[id |-> rafHandle(w), cb |-> cb, ps |-> ps]}]

cancelAnimationFrame(w, id) ==
  [w EXCEPT !.rafQueue = {f \in @ : f.id # id}]

HeldCanvases(w) ==
  {w.dom.canvas}
    \cup (IF IsSome(w.particleCanvas) THEN {Val(w.particleCanvas).id} ELSE {})
    \cup {w.systems[i].canvas.id : i \in 1..Len(w.systems)}

canvasId(w) ==
  CHOOSE h \in 1..(Cardinality(HeldCanvases(w)) + 1) :
    /\ h \notin HeldCanvases(w)
    /\ \A k \in 1..(h - 1) : k \in HeldCanvases(w)

\* rand(min, max) with Math.random() = r
rand(min, max, r) == RAdd(min, RMul(r, RSub(max, min)))

(***************************************************************************)
(* ParticleSystem                                                          *)
(***************************************************************************)
\* new ParticleSystem(canvas, config), after start() has run up to its await.
NewParticleSystem(canvas, config) ==
  [ canvas |-> [id |-> canvas.id, width |-> canvas.width, height |-> canvas.height,
                painted |-> FALSE],
    config |-> config, particles |-> <<>>, images |-> <<>>, rafId |-> 0,
    disposed |-> FALSE,
    load |-> "pending",        \* start(): awaiting the preload, resumed, or rejected
    uncaught |-> FALSE,        \* start()'s promise rejected with no handler attached
    disposeCalled |-> FALSE ]  \* observation: dispose() has been called

\* dispose() without `this.disposed = true`.
dispose_NoFlag(w, i) ==
  LET ps == w.systems[i]
      w1 == IF ps.rafId # 0 THEN cancelAnimationFrame(w, ps.rafId) ELSE w
  IN  [w1 EXCEPT !.systems[i].disposeCalled = TRUE,
                 !.systems[i].rafId = 0,
                 !.systems[i].canvas.painted = FALSE,
                 !.systems[i].particles = <<>>,
                 !.systems[i].images = <<>>,
                 !.fx = Append(@, "disposeParticles")]

dispose(w, i) ==
  LET ps == w.systems[i]
      w1 == IF ps.rafId # 0 THEN cancelAnimationFrame(w, ps.rafId) ELSE w
  IN  [w1 EXCEPT !.systems[i].disposeCalled = TRUE,
                 !.systems[i].disposed = TRUE,
                 !.systems[i].rafId = 0,
                 !.systems[i].canvas.painted = FALSE,
                 !.systems[i].particles = <<>>,
                 !.systems[i].images = <<>>,
                 !.fx = Append(@, "disposeParticles")]

\* resize() that puts a particle right of the new width on the new width.
resize_ClampsToWidth(w, i, width, height, rnd) ==
  LET ps == w.systems[i]
      moved(k) ==
        LET p == ps.particles[k]
        IN  IF RLess(Num(width), p.x) THEN [p EXCEPT !.x = Num(width)] ELSE p
  IN  [w EXCEPT !.systems[i].canvas.width = width,
                !.systems[i].canvas.height = height,
                !.systems[i].canvas.painted = FALSE,
                !.systems[i].particles = [k \in 1..Len(ps.particles) |-> moved(k)]]

\* resize() that drops the particles right of the new width.
resize_DropsOutside(w, i, width, height, rnd) ==
  LET inside(p) == ~RLess(Num(width), p.x)
  IN  [w EXCEPT !.systems[i].canvas.width = width,
                !.systems[i].canvas.height = height,
                !.systems[i].canvas.painted = FALSE,
                !.systems[i].particles = SelectSeq(@, inside)]

resize(w, i, width, height, rnd) ==
  LET ps == w.systems[i]
      moved(k) ==
        LET p == ps.particles[k]
        IN  IF RLess(Num(width), p.x)
            THEN [p EXCEPT !.x = rand(Zero, Num(width), rnd[k].x)]
            ELSE p
  IN  [w EXCEPT !.systems[i].canvas.width = width,
                !.systems[i].canvas.height = height,
                !.systems[i].canvas.painted = FALSE,
                !.systems[i].particles = [k \in 1..Len(ps.particles) |-> moved(k)]]

\* Math.tan((angleDeg * Math.PI) / 180), at the angles the descriptors use.
TanDeg(angleDeg) ==
  CASE angleDeg = Num(0) -> Zero
    [] angleDeg = Num(45) -> One
    [] angleDeg = Num(-45) -> Num(-1)

_initParticles(w, i, rnd) ==
  LET ps == w.systems[i]
      c == ps.config
      make(k) ==
        LET scale == rand(Num(c.sizeRange[1]), Num(c.sizeRange[2]), rnd[k].x)
            angleDeg == rand(Num(c.angleRange[1]), Num(c.angleRange[2]), rnd[k].x)
            speed == rand(Num(c.speedRange[1]), Num(c.speedRange[2]), rnd[k].x)
        IN  [ image |-> ps.images[1],
              x |-> rand(Zero, Num(ps.canvas.width), rnd[k].x),
              y |-> rand(Num(-ps.canvas.height), Zero, rnd[k].y),
              speed |-> speed,
              drift |-> RMul(speed, TanDeg(angleDeg)),
              scale |-> scale,
              opacity |-> rand(Num(c.opacityRange[1]), Num(c.opacityRange[2]), rnd[k].x),
              width |-> RMul(Num(NaturalSize.w), scale),
              height |-> RMul(Num(NaturalSize.h), scale) ]
  IN  [w EXCEPT !.systems[i].particles = [k \in 1..c.count |-> make(k)]]

\* The per-particle step of _tick, without the wrap at the left bound.
_tickParticle_NoLeftWrap(p, width, height, r) ==
  LET p1 == [p EXCEPT !.y = RAdd(p.y, p.speed), !.x = RAdd(p.x, p.drift)]
      p2 == IF RLess(RAdd(Num(height), p1.height), p1.y)
            THEN [p1 EXCEPT !.y = RSub(Zero, p1.height),
                            !.x = rand(Zero, Num(width), r)]
            ELSE p1
  IN  IF RLess(RAdd(Num(width), p2.width), p2.x)
      THEN [p2 EXCEPT !.x = RSub(Zero, p2.width)]
      ELSE p2

\* The per-particle step of _tick, recycling a particle to y = 0.
_tickParticle_RecycleAtTop(p, width, height, r) ==
  LET p1 == [p EXCEPT !.y = RAdd(p.y, p.speed), !.x = RAdd(p.x, p.drift)]
      p2 == IF RLess(RAdd(Num(height), p1.height), p1.y)
            THEN [p1 EXCEPT !.y = Zero, !.x = rand(Zero, Num(width), r)]
            ELSE p1
  IN  IF RLess(RAdd(Num(width), p2.width), p2.x)
      THEN [p2 EXCEPT !.x = RSub(Zero, p2.width)]
      ELSE IF RLess(p2.x, RSub(Zero, p2.width))
           THEN [p2 EXCEPT !.x = Num(width)]
           ELSE p2

_tickParticle(p, width, height, r) ==
  LET p1 == [p EXCEPT !.y = RAdd(p.y, p.speed), !.x = RAdd(p.x, p.drift)]
      p2 == IF RLess(RAdd(Num(height), p1.height), p1.y)
            THEN [p1 EXCEPT !.y = RSub(Zero, p1.height),
                            !.x = rand(Zero, Num(width), r)]
            ELSE p1
  IN  IF RLess(RAdd(Num(width), p2.width), p2.x)
      THEN [p2 EXCEPT !.x = RSub(Zero, p2.width)]
      ELSE IF RLess(p2.x, RSub(Zero, p2.width))
           THEN [p2 EXCEPT !.x = Num(width)]
           ELSE p2

_tick(w, i, rnd) ==
  LET ps == w.systems[i]
  IN  IF ps.disposed THEN w
      ELSE [requestAnimationFrame(w, "tick", i) EXCEPT
              !.systems[i].particles =
                 [k \in 1..Len(ps.particles) |->
                    _tickParticle(ps.particles[k], ps.canvas.width, ps.canvas.height,
                                  rnd[k].x)],
              !.systems[i].canvas.painted = (Len(ps.particles) > 0),
              !.systems[i].rafId = rafHandle(w)]

\* start() without the `if (this.disposed) return` after the await.
startResumed_NoRecheck(w, i, rnd) ==
  _tick(_initParticles([w EXCEPT !.systems[i].images = w.systems[i].config.srcs,
                                 !.systems[i].load = "resolved"], i, rnd), i, rnd)

\* start() resumed after `await this._loadImages()` resolved with the images.
startResumed(w, i, rnd) ==
  LET w1 == [w EXCEPT !.systems[i].images = w.systems[i].config.srcs,
                      !.systems[i].load = "resolved"]
  IN  IF w1.systems[i].disposed THEN w1
      ELSE _tick(_initParticles(w1, i, rnd), i, rnd)

\* start() that, when the preload rejects, goes on to _initParticles and _tick.
startRejected_StartsAnyway(w, i) ==
  _tick(_initParticles([w EXCEPT !.systems[i].load = "rejected",
                                 !.systems[i].images = w.systems[i].config.srcs],
                       i, [k \in 1..w.systems[i].config.count |->
                             [x |-> Zero, y |-> Zero]]),
        i, [k \in 1..w.systems[i].config.count |-> [x |-> Zero, y |-> Zero]])

\* start() ended by `await this._loadImages()` rejecting: the promise start()
\* returned rejects.  updateData discards that promise (`ps.start();`), so no
\* handler is attached to it.
startRejected(w, i) ==
  [w EXCEPT !.systems[i].load = "rejected", !.systems[i].uncaught = TRUE]

(***************************************************************************)
(* BannerEngine                                                            *)
(***************************************************************************)
ContainerListeners == {"container.mouseenter", "container.mousemove", "container.mouseleave"}
WindowListeners == {"window.resize", "window.blur"}

\* start() without `if (!this.container) return`: addEventListener on null.
start_NoNullCheck(w) ==
  IF ~w.container THEN [w EXCEPT !.thrown = TRUE]
  ELSE [w EXCEPT !.listeners = @ \cup ContainerListeners \cup WindowListeners]

start(w) ==
  IF ~w.container THEN w
  ELSE [w EXCEPT !.listeners = @ \cup ContainerListeners \cup WindowListeners]

\* _stopAnimation() that forgets the handle without cancelling the request.
_stopAnimation_NoCancel(w) ==
  IF w.state.rafId # 0
  THEN [w EXCEPT !.state.rafId = 0, !.fx = Append(@, "cancelFrame")]
  ELSE w

\* _stopAnimation() that cancels every pending animation-frame request.
_stopAnimation_CancelsAll(w) ==
  IF w.state.rafId # 0
  THEN [w EXCEPT !.rafQueue = {}, !.state.rafId = 0, !.fx = Append(@, "cancelFrame")]
  ELSE w

_stopAnimation(w) ==
  IF w.state.rafId # 0
  THEN [cancelAnimationFrame(w, w.state.rafId) EXCEPT
          !.state.rafId = 0, !.fx = Append(@, "cancelFrame")]
  ELSE w

\* _calcCompensate without the floor at 1.
_calcCompensate_NoFloor(w) ==
  [w EXCEPT !.compensate = Rat(w.window.innerWidth, baseWidth)]

_calcCompensate(w) ==
  [w EXCEPT !.compensate = IF w.window.innerWidth > baseWidth
                           THEN Rat(w.window.innerWidth, baseWidth)
                           ELSE One]

\* video.pause(); video.removeAttribute("src")
DetachedVideo(v) == [v EXCEPT !.paused = TRUE, !.src = FALSE]

HasVideo(d) ==
  \/ IsSome(d.simple)
  \/ \E i \in 1..Len(d.layers) : d.layers[i].child.tag = "video"

_destroyVideos(w) ==
  IF w.container /\ HasVideo(w.dom)
  THEN [w EXCEPT
          !.dom.simple = IF IsSome(@) THEN Some(DetachedVideo(Val(@))) ELSE @,
          !.dom.layers = [i \in 1..Len(@) |->
                            IF @[i].child.tag = "video"
                            THEN [@[i] EXCEPT !.child = DetachedVideo(@)]
                            ELSE @[i]],
          !.fx = Append(@, "detachVideos")]
  ELSE w

EmptyDom == [layers |-> <<>>, canvas |-> 0, simple |-> None]

\* this._particleSystem?.dispose(); this._particleSystem = null; this._particleCanvas = null
\* The particle teardown that drops the reference without calling dispose().
DisposeParticles_OnlyForgets(w) ==
  [w EXCEPT !.particleSystem = 0, !.particleCanvas = None]

DisposeParticles(w) ==
  [(IF w.particleSystem # 0 THEN dispose(w, w.particleSystem) ELSE w) EXCEPT
     !.particleSystem = 0, !.particleCanvas = None]

\* destroy() that clears the container before it stops the frame and disposes.
destroy_DisposeLast(w) ==
  LET w1 == IF w.container
            THEN [w EXCEPT !.listeners = @ \ ContainerListeners,
                           !.dom = EmptyDom,
                           !.fx = Append(@, "clearContainer")]
            ELSE w
      w2 == DisposeParticles(_stopAnimation(w1))
  IN  [w2 EXCEPT !.listeners = @ \ WindowListeners,
                 !.allLayersData = <<>>,
                 !.layers = None]

\* destroy() without _stopAnimation().
destroy_NoStop(w) ==
  LET w1 == DisposeParticles(_destroyVideos(w))
      w2 == IF w1.container
            THEN [w1 EXCEPT !.listeners = @ \ ContainerListeners,
                            !.dom = EmptyDom,
                            !.fx = Append(@, "clearContainer")]
            ELSE w1
  IN  [w2 EXCEPT !.listeners = @ \ WindowListeners,
                 !.allLayersData = <<>>,
                 !.layers = None]

\* destroy() that leaves the container's pointer listeners registered.
destroy_KeepContainerListeners(w) ==
  LET w1 == DisposeParticles(_destroyVideos(_stopAnimation(w)))
      w2 == IF w1.container
            THEN [w1 EXCEPT !.dom = EmptyDom,
                            !.fx = Append(@, "clearContainer")]
            ELSE w1
  IN  [w2 EXCEPT !.listeners = @ \ WindowListeners,
                 !.allLayersData = <<>>,
                 !.layers = None]

\* destroy() that leaves the window's resize and blur listeners registered.
destroy_KeepWindowListeners(w) ==
  LET w1 == DisposeParticles(_destroyVideos(_stopAnimation(w)))
      w2 == IF w1.container
            THEN [w1 EXCEPT !.listeners = @ \ ContainerListeners,
                            !.dom = EmptyDom,
                            !.fx = Append(@, "clearContainer")]
            ELSE w1
  IN  [w2 EXCEPT !.allLayersData = <<>>,
                 !.layers = None]

destroy(w) ==
  LET w1 == DisposeParticles(_destroyVideos(_stopAnimation(w)))
      w2 == IF w1.container
            THEN [w1 EXCEPT !.listeners = @ \ ContainerListeners,
                            !.dom = EmptyDom,
                            !.fx = Append(@, "clearContainer")]
            ELSE w1
  IN  [w2 EXCEPT !.listeners = @ \ WindowListeners,
                 !.allLayersData = <<>>,
                 !.layers = None]

\* _initParallaxData that leaves the base translation uncompensated.
LayerData_Uncompensated(item, comp) ==
  [ type |-> item.type, src |-> item.src, width |-> item.width, height |-> item.height,
    transform |-> item.transform, opacity |-> item.opacity, blur |-> item.blur,
    a |-> item.a, g |-> item.g, f |-> item.f, deg |-> item.deg,
    baseTransform |->
      << Num(item.transform[1]), Num(item.transform[2]), Num(item.transform[3]),
         Num(item.transform[4]), Num(item.transform[5]), Num(item.transform[6]) >>,
    aCompensated |-> item.a,
    gCompensated |-> item.g ]

\* _initParallaxData that writes the compensated translation back into the
\* item's transform, so that the next call compensates it again.
LayerData_Compounding(item, comp) ==
  [ type |-> item.type, src |-> item.src, width |-> item.width, height |-> item.height,
    transform |-> [item.transform EXCEPT ![5] = (@ * comp[1]) \div comp[2],
                                         ![6] = (@ * comp[1]) \div comp[2]],
    opacity |-> item.opacity, blur |-> item.blur,
    a |-> item.a, g |-> item.g, f |-> item.f, deg |-> item.deg,
    baseTransform |->
      << Num(item.transform[1]), Num(item.transform[2]), Num(item.transform[3]),
         Num(item.transform[4]), RMul(Num(item.transform[5]), comp),
         RMul(Num(item.transform[6]), comp) >>,
    aCompensated |-> item.a,
    gCompensated |-> item.g ]

\* _initParallaxData that stores the compensated acceleration in the item's
\* own coefficient a.
LayerData_OverwritesAccel(item, comp) ==
  [ type |-> item.type, src |-> item.src, width |-> item.width, height |-> item.height,
    transform |-> item.transform, opacity |-> item.opacity, blur |-> item.blur,
    a |-> RMul(item.a, comp), g |-> item.g, f |-> item.f, deg |-> item.deg,
    baseTransform |->
      << Num(item.transform[1]), Num(item.transform[2]), Num(item.transform[3]),
         Num(item.transform[4]), RMul(Num(item.transform[5]), comp),
         RMul(Num(item.transform[6]), comp) >>,
    aCompensated |-> item.a,
    gCompensated |-> item.g ]

\* One entry of allLayersData: the item with its derived fields.
LayerData(item, comp) ==
  [ type |-> item.type, src |-> item.src, width |-> item.width, height |-> item.height,
    transform |-> item.transform, opacity |-> item.opacity, blur |-> item.blur,
    a |-> item.a, g |-> item.g, f |-> item.f, deg |-> item.deg,
    baseTransform |->
      << Num(item.transform[1]), Num(item.transform[2]), Num(item.transform[3]),
         Num(item.transform[4]), RMul(Num(item.transform[5]), comp),
         RMul(Num(item.transform[6]), comp) >>,
    aCompensated |-> item.a,
    gCompensated |-> item.g ]

\* [...item.transform] throws a TypeError for an item that has no transform;
\* the map then never returns and allLayersData keeps its value.
HasTransform(item) == "transform" \in DOMAIN item

_initParallaxData(w, ls) ==
  IF \E i \in 1..Len(ls) : ~HasTransform(ls[i])
  THEN [w EXCEPT !.thrown = TRUE]
  ELSE [w EXCEPT !.allLayersData =
                    [i \in 1..Len(ls) |-> LayerData(ls[i], w.compensate)]]

\* The media element _createLayerElement builds, styled by _renderParallax.
LayerChild(item, comp) ==
  [ tag |-> IF item.type = "video" THEN "video" ELSE "img",
    src |-> TRUE, paused |-> FALSE, filter |-> item.blur,
    width |-> RMul(Num(item.width), comp), height |-> RMul(Num(item.height), comp) ]

\* style.transform: the base matrix, then the matrix(s, 0, 0, s, move, g) and
\* rotate(..deg) functions _animate appends.
BaseOnly(base) == [base |-> base, m |-> None, rot |-> None]

LayerElement(item, comp) ==
  [ transform |-> BaseOnly(item.baseTransform),
    opacity |-> IF IsSome(item.opacity) THEN Some(Val(item.opacity)[1]) ELSE None,
    child |-> LayerChild(item, comp) ]

_renderSimpleVideo(w, data) ==
  IF ~w.container THEN w
  ELSE [w EXCEPT
          !.dom = [layers |-> <<>>, canvas |-> 0,
                   simple |-> Some([tag |-> "video", src |-> TRUE, paused |-> FALSE])],
          !.fx = @ \o <<"clearContainer", "appendVideo">>]

_renderParallax(w) ==
  IF ~w.container THEN w
  ELSE IF IsSome(w.layers) /\ Val(w.layers) > 0
  THEN [w EXCEPT
          !.dom.layers =
             [i \in 1..Len(@) |->
                IF i <= Val(w.layers)
                THEN [@[i] EXCEPT
                        !.child.width = RMul(Num(w.allLayersData[i].width), w.compensate),
                        !.child.height = RMul(Num(w.allLayersData[i].height), w.compensate),
                        !.transform = BaseOnly(w.allLayersData[i].baseTransform)]
                ELSE @[i]],
          !.fx = Append(@, "restyleLayers")]
  ELSE [w EXCEPT
          !.dom = [layers |-> [i \in 1..Len(w.allLayersData) |->
                                 LayerElement(w.allLayersData[i], w.compensate)],
                   canvas |-> canvasId(w),
                   simple |-> None],
          !.layers = Some(Len(w.allLayersData)),
          !.particleCanvas = Some([id |-> canvasId(w),
                                   width |-> w.window.clientWidth,
                                   height |-> w.window.clientHeight]),
          !.fx = @ \o <<"clearContainer", "appendLayers", "appendCanvas">>]

\* The default branch of updateData's switch, throwing instead of warning.
warnUnknown_Throws(w) == [w EXCEPT !.thrown = TRUE]

\* console.warn("[BannerEngine] Unknown banner target type.")
warnUnknown(w) == [w EXCEPT !.fx = Append(@, "warn")]

IsParticle(item) == item.type = "particle"
IsLayer(item) == item.type # "particle"

updateData(w, dto, ctx) ==
  LET w1 == [DisposeParticles(_destroyVideos(_stopAnimation(w))) EXCEPT !.layers = None]
  IN  CASE dto.type = "simple-video" ->
             _renderSimpleVideo([w1 EXCEPT !.simpleVideoMode = TRUE,
                                           !.allLayersData = <<>>], dto.payload)
        [] dto.type = "parallax" ->
             LET parallaxLayers == SelectSeq(dto.payload, IsLayer)
                 particles == SelectSeq(dto.payload, IsParticle)
                 w2 == _calcCompensate([w1 EXCEPT !.simpleVideoMode = FALSE])
                 d == _initParallaxData(w2, parallaxLayers)
                 w3 == IF d.thrown THEN d ELSE _renderParallax(d)
             IN  IF w3.thrown THEN w3
                 ELSE IF Len(particles) > 0 /\ w3.container /\ IsSome(w3.particleCanvas)
                 THEN IF ~ctx
                      THEN [w3 EXCEPT !.thrown = TRUE]
                      ELSE [w3 EXCEPT
                              !.systems = Append(@, NewParticleSystem(
                                             Val(w3.particleCanvas), particles[1])),
                              !.particleSystem = Len(w3.systems) + 1]
                 ELSE w3
        [] OTHER -> warnUnknown(w1)

(***************************************************************************)
(* The loader's adapter from a parsed data.json to a descriptor.  A raw    *)
(* value is written [isArray, mode, src, items]: an array has its items,   *)
(* an object its mode and src, anything else neither.                      *)
(***************************************************************************)
\* { ...item, type: isVideo ? "video" : "image" }
Retyped(item) ==
  LET isVideo == "tagName" \in DOMAIN item /\ item.tagName = "video"
  IN  [k \in DOMAIN item \cup {"type"} |->
         IF k = "type" THEN (IF isVideo THEN "video" ELSE "image") ELSE item[k]]

_normalizeData(rawData) ==
  IF ~rawData.isArray /\ rawData.mode = "simple-video"
  THEN [type |-> "simple-video",
        payload |-> [mode |-> "simple-video", src |-> rawData.src]]
  ELSE IF rawData.isArray
  THEN [type |-> "parallax",
        payload |-> [k \in 1..Len(rawData.items) |-> Retyped(rawData.items[k])]]
  ELSE [type |-> "parallax", payload |-> <<>>]

\* _lerp with its end points exchanged.
_lerp_Swapped(from, to, amt) == RAdd(RMul(RSub(One, amt), to), RMul(amt, from))

\* _lerp that weights its end point by amt squared.
_lerp_Quadratic(from, to, amt) ==
  RAdd(RMul(RSub(One, amt), from), RMul(RMul(amt, amt), to))

_lerp(from, to, amt) == RAdd(RMul(RSub(One, amt), from), RMul(amt, to))

\* What _animate writes to one layer: <<style.transform, style.opacity>>.
\* progress is None in a tracking frame and Some(eased progress) when homing.
AnimatedStyle(el, item, moveX, innerWidth, progress) ==
  LET isHoming == IsSome(progress)
      m == Num(moveX)
      currentMoveX == IF isHoming THEN _lerp(m, Zero, Val(progress)) ELSE m
      move == RMul(currentMoveX, item.aCompensated)
      s == IF Truthy(item.f) THEN RAdd(RMul(item.f, currentMoveX), One) ELSE One
      g == RMul(currentMoveX, item.gCompensated)
      currentDeg == IF isHoming
                    THEN _lerp(RMul(item.deg, m), Zero, Val(progress))
                    ELSE RMul(item.deg, m)
      finalTransform ==
        [ base |-> item.baseTransform,
          m |-> Some(<<s, move, g>>),
          rot |-> IF Truthy(item.deg) THEN Some(RMul(currentDeg, DEG2RAD)) ELSE None ]
      opacity ==
        IF IsSome(item.opacity)
        THEN Some(IF isHoming /\ moveX > 0
                  THEN _lerp(Val(item.opacity)[2], Val(item.opacity)[1], Val(progress))
                  ELSE _lerp(Val(item.opacity)[1], Val(item.opacity)[2],
                             RMul(Rat(moveX, innerWidth), Num(2))))
        ELSE el.opacity
  IN  [el EXCEPT !.transform = finalTransform, !.opacity = opacity]

\* The x-translation of the matrix the host computes from a style.transform
\* list `matrix(a, b, c, d, tx, ty) matrix(s, 0, 0, s, move, g) rotate(..)`:
\* the functions multiply left to right, and a rotation moves nothing.
TranslationX(t) ==
  IF IsSome(t.m)
  THEN RAdd(RAdd(RMul(t.base[1], Val(t.m)[2]), RMul(t.base[3], Val(t.m)[3])),
            t.base[5])
  ELSE t.base[5]

\* _animate that stores the acceleration it applied back into the layer data.
_animate_WritesDerived(w, progress) ==
  IF ~IsSome(w.layers) \/ Val(w.layers) <= 0 THEN w
  ELSE LET n == Val(w.layers)
           known == Len(w.allLayersData)
       IN  [w EXCEPT
              !.dom.layers =
                 [i \in 1..Len(@) |->
                    IF i <= n /\ i <= known
                    THEN AnimatedStyle(@[i], w.allLayersData[i], w.state.moveX,
                                       w.window.innerWidth, progress)
                    ELSE @[i]],
              !.allLayersData =
                 [i \in 1..Len(@) |->
                    [@[i] EXCEPT !.aCompensated = RMul(Num(w.state.moveX), @)]],
              !.thrown = (n > known)]

_animate(w, progress) ==
  IF ~IsSome(w.layers) \/ Val(w.layers) <= 0 THEN w
  ELSE LET n == Val(w.layers)
           known == Len(w.allLayersData)
       IN  [w EXCEPT
              !.dom.layers =
                 [i \in 1..Len(@) |->
                    IF i <= n /\ i <= known
                    THEN AnimatedStyle(@[i], w.allLayersData[i], w.state.moveX,
                                       w.window.innerWidth, progress)
                    ELSE @[i]],
              \* allLayersData[i] is undefined past its end: reading a field throws
              !.thrown = (n > known)]

_handleMouseEnter(w, pageX) ==
  IF w.simpleVideoMode THEN w
  ELSE [w EXCEPT !.state.initX = pageX]

\* _handleMouseMove without _stopAnimation() before the new request.
_handleMouseMove_NoCancel(w, pageX) ==
  IF w.simpleVideoMode THEN w
  ELSE LET w1 == [w EXCEPT !.state.moveX = pageX - w.state.initX]
       IN  [requestAnimationFrame(w1, "animate", 0) EXCEPT !.state.rafId = rafHandle(w1)]

\* _handleMouseMove that drops a move arriving while a tracking frame is pending.
_handleMouseMove_KeepsFirst(w, pageX) ==
  IF w.simpleVideoMode THEN w
  ELSE IF \E f \in w.rafQueue : f.id = w.state.rafId /\ f.cb = "animate" THEN w
  ELSE LET w1 == _stopAnimation([w EXCEPT !.state.moveX = pageX - w.state.initX])
       IN  [requestAnimationFrame(w1, "animate", 0) EXCEPT !.state.rafId = rafHandle(w1)]

\* _handleMouseMove without `if (this.simpleVideoMode) return`.
_handleMouseMove_NoModeCheck(w, pageX) ==
  LET w1 == _stopAnimation([w EXCEPT !.state.moveX = pageX - w.state.initX])
  IN  [requestAnimationFrame(w1, "animate", 0) EXCEPT !.state.rafId = rafHandle(w1)]

_handleMouseMove(w, pageX) ==
  IF w.simpleVideoMode THEN w
  ELSE LET w1 == _stopAnimation([w EXCEPT !.state.moveX = pageX - w.state.initX])
       IN  [requestAnimationFrame(w1, "animate", 0) EXCEPT !.state.rafId = rafHandle(w1)]

_handleMouseLeave(w) ==
  IF w.simpleVideoMode THEN w
  ELSE LET w1 == _stopAnimation([w EXCEPT !.state.startTime = 0])
       IN  [requestAnimationFrame(w1, "resetPosition", 0) EXCEPT
              !.state.rafId = rafHandle(w1)]

_handleResize(w, rnd) ==
  IF w.simpleVideoMode THEN w
  ELSE LET w1 == _renderParallax(_initParallaxData(_calcCompensate(w), w.allLayersData))
       IN  IF w1.container /\ IsSome(w1.particleCanvas) /\ w1.particleSystem # 0
           THEN resize(w1, w1.particleSystem, w1.window.clientWidth,
                       w1.window.clientHeight, rnd)
           ELSE w1

_easeOutQuart(x) == RSub(One, RPow4(RSub(One, x)))

\* _resetPosition whose last frame does not reset moveX.
_resetPosition_KeepOffset(w, timestamp) ==
  LET w1 == IF w.state.startTime = 0 THEN [w EXCEPT !.state.startTime = timestamp] ELSE w
      elapsed == timestamp - w1.state.startTime
      progress == RMin(Rat(elapsed, duration), One)
      w2 == _animate(w1, Some(_easeOutQuart(progress)))
  IN  IF w2.thrown THEN w2
      ELSE IF RLess(progress, One)
      THEN [requestAnimationFrame(w2, "resetPosition", 0) EXCEPT
              !.state.rafId = rafHandle(w2)]
      ELSE [w2 EXCEPT !.state.rafId = 0]

_resetPosition(w, timestamp) ==
  LET w1 == IF w.state.startTime = 0 THEN [w EXCEPT !.state.startTime = timestamp] ELSE w
      elapsed == timestamp - w1.state.startTime
      progress == RMin(Rat(elapsed, duration), One)
      easeProgress == _easeOutQuart(progress)
      w2 == _animate(w1, Some(easeProgress))
  IN  IF w2.thrown THEN w2
      ELSE IF RLess(progress, One)
      THEN [requestAnimationFrame(w2, "resetPosition", 0) EXCEPT
              !.state.rafId = rafHandle(w2)]
      ELSE [w2 EXCEPT !.state.rafId = 0, !.state.moveX = 0]

(***************************************************************************)
(* Initial state: a constructed engine, the container found or not.        *)
(***************************************************************************)
Init ==
  /\ container \in BOOLEAN
  /\ allLayersData = <<>>
  /\ layers = None
  /\ compensate = One
  /\ simpleVideoMode = FALSE
  /\ particleSystem = 0
  /\ particleCanvas = None
  /\ state = [initX |-> 0, moveX |-> 0, startTime |-> 0, rafId |-> 0]
  /\ dom = EmptyDom
  /\ listeners = {}
  /\ rafQueue = {}
  /\ systems = <<>>
  /\ window = InitialViewport
  /\ now = 0
  /\ fx = <<>>
  /\ thrown = FALSE
  /\ life = "constructed"
  /\ lastEvent = "constructor"

(***************************************************************************)
(* Actions: calls of the public methods by the host page.                  *)
(***************************************************************************)
Start == Commit(start(World), "start")

Destroy == Commit(destroy(World), "destroy")

\* Whether updateData(dto) constructs a ParticleSystem.
WantsParticles(dto) ==
  /\ dto.type = "parallax"
  /\ \E k \in 1..Len(dto.payload) : IsParticle(dto.payload[k])

UpdateData(descriptors) ==
  \E dto \in descriptors, ctx \in BOOLEAN :
    /\ WantsParticles(dto) => Len(systems) < MaxSystems
    /\ ~WantsParticles(dto) => ctx
    /\ Commit(updateData(World, dto, ctx), "updateData")

\* The page hands a loaded variant to the engine:
\* engine.updateData(variant.data), variant.data = _normalizeData(rawData).
Load ==
  \E rawData \in RawDatasets, ctx \in BOOLEAN :
    LET dto == _normalizeData(rawData)
    IN  /\ WantsParticles(dto) => Len(systems) < MaxSystems
        /\ ~WantsParticles(dto) => ctx
        /\ Commit(updateData(World, dto, ctx), "updateData")

(***************************************************************************)
(* Actions: DOM events.  A dispatched event runs the handler registered    *)
(* for it, if any.                                                         *)
(***************************************************************************)
Dispatch(listener, handled, ev) ==
  Commit(IF listener \in listeners THEN handled ELSE World, ev)

MouseEnter ==
  \E pageX \in PageXs :
    /\ container
    /\ Dispatch("container.mouseenter", _handleMouseEnter(World, pageX), "mouseenter")

MouseMove ==
  \E pageX \in PageXs :
    /\ container
    /\ Dispatch("container.mousemove", _handleMouseMove(World, pageX), "mousemove")

MouseLeave ==
  /\ container
  /\ now <= LastLeaveTime
  /\ Dispatch("container.mouseleave", _handleMouseLeave(World), "mouseleave")

Blur ==
  /\ now <= LastLeaveTime
  /\ Dispatch("window.blur", _handleMouseLeave(World), "blur")

\* Random draws for n particles: one record of draws per particle.
Draws(n) == [1..n -> [x : RandomDraws, y : RandomDraws]]

ParticleCount(w) ==
  IF w.particleSystem = 0 THEN 0 ELSE Len(w.systems[w.particleSystem].particles)

Resize ==
  \E v \in Viewports \ {window}, rnd \in Draws(ParticleCount(World)) :
    LET w == [World EXCEPT !.window = v]
    IN  Commit(IF "window.resize" \in listeners THEN _handleResize(w, rnd) ELSE w, "resize")

(***************************************************************************)
(* Actions: the host runs a pending animation-frame callback.              *)
(***************************************************************************)
Dequeued(f) == [World EXCEPT !.rafQueue = @ \ {f}]

TrackingFrame ==
  \E f \in rafQueue :
    /\ f.cb = "animate"
    /\ Commit(_animate(Dequeued(f), None), "trackingFrame")

HomingFrame ==
  \E f \in rafQueue, dt \in FrameDeltas :
    /\ f.cb = "resetPosition"
    /\ Commit(_resetPosition([Dequeued(f) EXCEPT !.now = now + dt], now + dt),
              "homingFrame")

ParticleFrame ==
  \E f \in rafQueue :
    /\ f.cb = "tick"
    /\ \E rnd \in Draws(Len(systems[f.ps].particles)) :
         Commit(_tick(Dequeued(f), f.ps, rnd), "particleFrame")

(***************************************************************************)
(* Actions: a ParticleSystem's image preload settles.                      *)
(***************************************************************************)
PreloadResolved ==
  \E i \in 1..Len(systems) :
    /\ systems[i].load = "pending"
    /\ \E rnd \in Draws(systems[i].config.count) :
         Commit(startResumed(World, i, rnd), "preloadResolved")

PreloadRejected ==
  \E i \in 1..Len(systems) :
    /\ systems[i].load = "pending"
    /\ Commit(startRejected(World, i), "preloadRejected")

(***************************************************************************)
(* Specifications.  Spec is the interaction engine under every pointer and *)
(* window event, every engine frame and every public call, on descriptors  *)
(* without a particle entry.  SpecParticles is the engine supervising the  *)
(* particle simulation: public calls, pointer-move and its tracking frame, *)
(* the preload settling and the particle frames.  SpecFair is the pointer  *)
(* state machine on a loaded parallax dataset, with the host running a     *)
(* pending homing frame eventually (requestAnimationFrame callbacks fire). *)
(* SpecResize and SpecResizeLayers are the particle simulation under       *)
(* window resizes, on a dataset without and with ordinary layers,          *)
(* SpecTogether is pointer tracking over a running particle simulation,    *)
(* SpecDrift is that simulation with particles drifting sideways, and      *)
(* SpecLoader is the engine fed with the loader's normalized datasets.     *)
(***************************************************************************)
Next ==
  \/ Start
  \/ Destroy
  \/ UpdateData(PlainDescriptors)
  \/ MouseEnter
  \/ MouseMove
  \/ MouseLeave
  \/ Blur
  \/ Resize
  \/ TrackingFrame
  \/ HomingFrame

Spec == Init /\ [][Next]_vars

NextParticles ==
  \/ Start
  \/ Destroy
  \/ UpdateData(ParticleDescriptors)
  \/ MouseMove
  \/ TrackingFrame
  \/ ParticleFrame
  \/ PreloadResolved
  \/ PreloadRejected

SpecParticles == Init /\ [][NextParticles]_vars

\* The particle simulation under window resizes, on a dataset without
\* ordinary layers.
NextResize ==
  \/ Start
  \/ UpdateData({ParticleOnlyDto})
  \/ Resize
  \/ PreloadResolved
  \/ ParticleFrame

SpecResize == Init /\ [][NextResize]_vars

\* The particle simulation under window resizes, over parallax layers.
NextResizeLayers ==
  \/ Start
  \/ UpdateData({ParallaxDto})
  \/ Resize
  \/ PreloadResolved
  \/ ParticleFrame

SpecResizeLayers == Init /\ [][NextResizeLayers]_vars

\* Pointer tracking over a dataset whose particle simulation runs.
NextTogether ==
  \/ Start
  \/ UpdateData({ParallaxDto})
  \/ MouseMove
  \/ TrackingFrame
  \/ PreloadResolved
  \/ ParticleFrame

SpecTogether == Init /\ [][NextTogether]_vars

\* The pointer state machine on a parallax dataset.
\* A simulation of drifting particles.
NextDrift ==
  \/ Start
  \/ UpdateData({DriftDto})
  \/ PreloadResolved
  \/ ParticleFrame

SpecDrift == Init /\ [][NextDrift]_vars

\* The engine fed by the loader, under pointer tracking.
NextLoader ==
  \/ Start
  \/ Load
  \/ MouseEnter
  \/ MouseMove
  \/ TrackingFrame

SpecLoader == Init /\ [][NextLoader]_vars

NextHoming ==
  \/ Start
  \/ UpdateData({ParallaxPlainDto})
  \/ MouseEnter
  \/ MouseMove
  \/ MouseLeave
  \/ Blur
  \/ TrackingFrame
  \/ HomingFrame

\* The host runs a requested frame callback: weak fairness of HomingFrame.  A
\* homing frame is enabled exactly when one is pending and always advances
\* `now`, so ENABLED <<HomingFrame>>_vars is written out as HomingPending.
FrameCallbacksFire ==
  []<>(~(\E f \in rafQueue : f.cb = "resetPosition")) \/ []<><<HomingFrame>>_vars

SpecFair == Init /\ [][NextHoming]_vars /\ FrameCallbacksFire

(***************************************************************************)
(* Properties.                                                             *)
(***************************************************************************)
\* The engine's pending animation-frame requests (tracking or homing).
EngineFrames == {f \in rafQueue : f.ps = 0}
HomingPending == \E f \in rafQueue : f.cb = "resetPosition"
Logged(effect) == \E k \in 1..Len(fx) : fx[k] = effect

\* C1: in every reachable state at most one engine animation-frame request
\* (tracking frame or homing frame) is pending.
AtMostOneEngineFrame == Cardinality(EngineFrames) <= 1

\* C1 witness: a blur arrived after the pointer had moved: its homing frame is
\* the one pending request.
BlurReplacedTracking ==
  /\ lastEvent = "blur"
  /\ state.moveX # 0
  /\ Cardinality(EngineFrames) = 1
  /\ HomingPending

\* C2: every updateData call leaves moveX = 0, startTime = 0 and rafId = 0.
UpdateDataResetsState ==
  lastEvent = "updateData" =>
    state.moveX = 0 /\ state.startTime = 0 /\ state.rafId = 0

\* C3: when updateData or destroy returns, no engine frame is pending; the
\* calls request none themselves, so a frame requested before the call never
\* runs after it.
NoFrameSurvivesReload ==
  lastEvent \in {"updateData", "destroy"} => EngineFrames = {}

\* C3 witness: updateData arrived with a frame pending, cancelled it and built
\* the layers of the new dataset.
ReloadCancelledFrame ==
  /\ lastEvent = "updateData"
  /\ Logged("cancelFrame")
  /\ layers = Some(2)
  /\ state.moveX # 0

DomMutations ==
  {"detachVideos", "clearContainer", "appendVideo", "appendLayers", "appendCanvas",
   "restyleLayers"}
StructureMutations == DomMutations \ {"detachVideos"}
Precedes(first, later) ==
  \A i, j \in 1..Len(fx) : (fx[i] \in first /\ fx[j] \in later) => i < j

\* C4, as stated: in updateData and destroy, cancelling the frame and
\* disposing the particle system both precede every DOM mutation, pausing the
\* videos and removing their src included.
CancelAndDisposeBeforeAnyDom ==
  Precedes({"cancelFrame", "disposeParticles"}, DomMutations)

\* C4, amended: cancelling the frame precedes every DOM mutation; disposing the
\* particle system precedes every mutation of DOM structure (clearing the
\* container, appending the new elements) but follows the pausing of the videos
\* and the removal of their src.
CancelBeforeDomDisposeBeforeStructure ==
  /\ Precedes({"cancelFrame"}, DomMutations)
  /\ Precedes({"disposeParticles"}, StructureMutations)
  /\ Precedes({"detachVideos"}, {"disposeParticles"})

\* C4 witness: an updateData that cancelled a frame, detached videos, disposed a
\* particle system and rebuilt the container.
ReloadDidEverything ==
  /\ lastEvent = "updateData"
  /\ Logged("cancelFrame")
  /\ Logged("detachVideos")
  /\ Logged("disposeParticles")
  /\ Logged("appendLayers")

\* The homing loop has run its last frame.
HomingDone ==
  /\ lastEvent = "homingFrame"
  /\ ~thrown
  /\ ~HomingPending

\* The transform _animate computes for layer i at effective offset m = 0.
RestTransform(i) ==
  AnimatedStyle(dom.layers[i], allLayersData[i], 0, window.innerWidth, None).transform

\* C5: when a homing loop has run to completion, every layer's transform is the
\* transform computed for m = 0 and moveX is 0.
HomingEndsAtRest ==
  HomingDone =>
    /\ state.moveX = 0
    /\ IsSome(layers) =>
         \A i \in 1..Val(layers) : dom.layers[i].transform = RestTransform(i)

\* C5 witness: a completed homing loop that wrote the layers, the rotation term
\* of the first included.
HomingCompletedOnLayers ==
  /\ HomingDone
  /\ layers = Some(2)
  /\ dom.layers[1].transform.rot = Some(Zero)
  /\ now >= duration

Idle == state.moveX = 0 /\ EngineFrames = {} /\ state.rafId = 0
\* An event other than a homing frame or the leave/blur that starts homing.
Interrupted == lastEvent \notin {"homingFrame", "mouseleave", "blur"}

\* C6: a pending homing loop, as long as no further event interrupts it and
\* frames keep firing, reaches its last frame and leaves the engine Idle.
HomingLeadsToIdle == HomingPending ~> (Idle \/ Interrupted)

\* C6 witness: the engine is Idle right after a homing frame.
IdleAfterHoming ==
  /\ lastEvent = "homingFrame"
  /\ Idle
  /\ layers = Some(2)

\* The program's part of a state record.
Program(w) == [w EXCEPT !.fx = <<>>, !.thrown = FALSE]
FramesOf(w) == {f \in w.rafQueue : f.ps = 0}

\* C7: from every reachable state, destroy() twice in a row throws nothing,
\* leaves no engine frame pending and rafId = 0 after each call, and the second
\* call changes nothing.
DestroyTwiceIsDestroyOnce ==
  LET d1 == destroy(World)
      d2 == destroy([d1 EXCEPT !.fx = <<>>])
  IN  /\ ~d1.thrown /\ ~d2.thrown
      /\ FramesOf(d1) = {} /\ d1.state.rafId = 0
      /\ FramesOf(d2) = {} /\ d2.state.rafId = 0
      /\ Program(d2) = Program(d1)

\* C7 witness: destroy() has just returned on an engine that had been used, and
\* a further destroy() leaves the state as it is.
DestroyedAndStable ==
  /\ lastEvent = "destroy"
  /\ Logged("cancelFrame")
  /\ Logged("detachVideos")
  /\ Program(destroy(World)) = Program(World)

PointerAndWindowEvents == {"mouseenter", "mousemove", "mouseleave", "resize", "blur"}

\* C8: after destroy(), until start() is called again, every pointer-enter,
\* pointer-move, pointer-leave, resize and blur event leaves the engine state,
\* the container and the pending frames unchanged.
DestroyedIgnoresEvents ==
  [][(life = "destroyed" /\ lastEvent' \in PointerAndWindowEvents)
       => UNCHANGED progVars]_vars

\* C8 witness: after destroy() a dataset was loaded and the pointer moved over
\* it; nothing was scheduled.
MoveAfterDestroy ==
  /\ life = "destroyed"
  /\ lastEvent = "mousemove"
  /\ layers = Some(2)
  /\ rafQueue = {}

\* C9: when the preload of a ParticleSystem resolves after dispose() was called
\* on it, no particle is created and no particle frame is scheduled.
DisposedPreloadStartsNothing ==
  [][\A i \in 1..Len(systems) :
       (systems[i].disposeCalled /\ systems[i].load = "pending"
          /\ systems'[i].load = "resolved")
       => /\ systems'[i].particles = <<>>
          /\ systems'[i].rafId = 0
          /\ \A f \in rafQueue' : f.ps # i]_vars

\* C9 witness: the only preload that has resolved is that of a system disposed
\* before, and it resolved in the latest step.
PreloadResolvedAfterDispose ==
  /\ lastEvent = "preloadResolved"
  /\ \E i \in 1..Len(systems) :
       /\ systems[i].disposeCalled
       /\ systems[i].load = "resolved"
       /\ \A j \in 1..Len(systems) : j # i => systems[j].load # "resolved"

\* C10: once dispose() has been called on a ParticleSystem, no later step
\* moves one of its particles, paints its canvas or schedules a frame for it.
DisposedNeverTicks ==
  [][\A i \in 1..Len(systems) :
       systems[i].disposeCalled
       => /\ Len(systems'[i].particles) = Len(systems[i].particles)
               => systems'[i].particles = systems[i].particles
          /\ ~systems'[i].canvas.painted
          /\ \A f \in rafQueue' \ rafQueue : f.ps # i]_vars

\* C10 witness: a running system (its preload resolved) was disposed by the
\* latest destroy(), and nothing of it is left pending.
RunningSystemDisposed ==
  /\ lastEvent = "destroy"
  /\ Logged("disposeParticles")
  /\ Len(systems) = 1
  /\ systems[1].disposeCalled
  /\ systems[1].load = "resolved"
  /\ \A f \in rafQueue : f.ps # 1

\* C11: once dispose() has been called on a ParticleSystem, it holds no
\* particle and no image in every later state, a preload in flight at the
\* time of the dispose and resolving afterwards included.
DisposedHoldsNothing ==
  \A i \in 1..Len(systems) :
    systems[i].disposeCalled
      => systems[i].particles = <<>> /\ systems[i].images = <<>>

\* C12: updateData never throws, whatever the descriptor and also when the
\* particle canvas provides no 2D context.
UpdateDataNeverThrows == lastEvent = "updateData" => ~thrown

\* C13: no failure reaches the host page uncaught: a rejection of a
\* ParticleSystem's start() promise is handled inside the engine.
NoUnhandledRejection == \A i \in 1..Len(systems) : ~systems[i].uncaught

\* Particle frames pending for system i.
ParticleFramesOf(i) == {f \in rafQueue : f.ps = i}

\* C14: when the preload of a ParticleSystem rejects, its start() has rejected
\* for good: it holds no particle, no particle frame is ever scheduled for it,
\* and the engine constructs no other system in its place (no retry).
RejectedPreloadAbortsSimulation ==
  [][\A i \in 1..Len(systems) :
       /\ systems[i].load = "rejected" => systems'[i].load = "rejected"
       /\ systems'[i].load = "rejected"
            => /\ systems'[i].particles = <<>>
               /\ systems'[i].rafId = 0
               /\ \A f \in rafQueue' : f.ps # i
       /\ (systems[i].load = "pending" /\ systems'[i].load = "rejected")
            => /\ Len(systems') = Len(systems)
               /\ particleSystem' = particleSystem]_vars

\* C14 witness: the preload of the engine's current, undisposed system has just
\* rejected, and no particle frame is pending for it.
PreloadRejectedOnLiveSystem ==
  /\ lastEvent = "preloadRejected"
  /\ particleSystem # 0
  /\ systems[particleSystem].load = "rejected"
  /\ ~systems[particleSystem].disposeCalled
  /\ ParticleFramesOf(particleSystem) = {}

\* C15: when the container selector matched nothing, no sequence of start(),
\* updateData(descriptor) and destroy() calls throws, attaches a listener,
\* schedules an animation frame, creates a ParticleSystem or builds DOM.
NoContainerNoEffect ==
  ~container =>
    /\ ~thrown
    /\ listeners = {}
    /\ rafQueue = {}
    /\ systems = <<>> /\ particleSystem = 0 /\ particleCanvas = None
    /\ dom = EmptyDom

\* C15 witness: without a container, start() was called and a parallax
\* descriptor with a particle entry has just been loaded.
LoadedWithoutContainer ==
  /\ ~container
  /\ life = "started"
  /\ lastEvent = "updateData"
  /\ ~simpleVideoMode
  /\ Len(allLayersData) = 2

\* C16: from every reachable state, updateData with a descriptor of unknown
\* type logs a warning, throws nothing, creates no element (the container is
\* left as the teardown left it), leaves layers null and constructs or starts
\* no ParticleSystem.
UnknownTypeIsNoOpRender ==
  \A ctx \in BOOLEAN :
    LET r == updateData(World, UnknownDto, ctx)
        torn == DisposeParticles(_destroyVideos(_stopAnimation(World)))
    IN  /\ \E k \in 1..Len(r.fx) : r.fx[k] = "warn"
        /\ ~r.thrown
        /\ r.dom = torn.dom
        /\ r.layers = None
        /\ r.allLayersData = allLayersData
        /\ Len(r.systems) = Len(systems)
        /\ r.particleSystem = 0
        /\ r.rafQueue \subseteq rafQueue

\* C16 witness: a descriptor of unknown type has just been handed to an engine
\* in simple-video mode.
UnknownTypeWarned ==
  /\ lastEvent = "updateData"
  /\ Logged("warn")
  /\ simpleVideoMode
  /\ IsSome(dom.simple)

\* C17: after every updateData call the container holds no element of a
\* previously loaded dataset: whatever it holds was appended by this call,
\* after this call cleared the container.
UpdateDataTearsDownDom ==
  (lastEvent = "updateData" /\ dom # EmptyDom) => Logged("clearContainer")

\* C18: while the engine is in simple-video mode, every pointer-enter,
\* pointer-move, pointer-leave, blur and resize event leaves EngineState and
\* the DOM unchanged and schedules no animation frame.
SimpleVideoIgnoresEvents ==
  [][(simpleVideoMode /\ lastEvent' \in PointerAndWindowEvents)
       => UNCHANGED <<state, dom, rafQueue, layers, allLayersData, compensate>>]_vars

\* C18 witness: a started engine playing a simple video has just received a
\* pointer-move.
MoveOverSimpleVideo ==
  /\ simpleVideoMode
  /\ IsSome(dom.simple)
  /\ "container.mousemove" \in listeners
  /\ lastEvent = "mousemove"

\* A tracking frame has just written the layers.
Tracked ==
  /\ lastEvent = "trackingFrame"
  /\ ~thrown
  /\ IsSome(layers)

\* The compensated base x-translation of layer i.
CompensatedTx(i) == RMul(Num(allLayersData[i].transform[5]), compensate)

\* C19, as stated: after a tracking frame at pointer offset m, the
\* x-translation of every layer's transform is m * accel plus the layer's
\* compensated base tx, whatever the layer's base matrix.
TranslationIsOffsetPlusBase ==
  Tracked =>
    \A i \in 1..Val(layers) :
      TranslationX(dom.layers[i].transform)
        = RAdd(RMul(Num(state.moveX), allLayersData[i].a), CompensatedTx(i))

\* C19, amended: the x-translation is a * (m * accel) + c * (m * g) plus the
\* compensated base tx, with a and c the first-row entries of the layer's base
\* matrix and g its vertical coefficient, unclamped; it is m * accel plus the
\* compensated tx when a = 1 and c = 0.  accel 1/20, base [1,0,0,1,100,50],
\* compensation 1, offset 200 gives 110.
TranslationIsComposedWithBase ==
  /\ Tracked =>
       \A i \in 1..Val(layers) :
         LET item == allLayersData[i]
             m == Num(state.moveX)
         IN  /\ TranslationX(dom.layers[i].transform)
                  = RAdd(RAdd(RMul(Num(item.transform[1]), RMul(m, item.a)),
                              RMul(Num(item.transform[3]), RMul(m, item.g))),
                         CompensatedTx(i))
             /\ (item.transform[1] = 1 /\ item.transform[3] = 0)
                  => TranslationX(dom.layers[i].transform)
                       = RAdd(RMul(m, item.a), CompensatedTx(i))
  /\ LET item == LayerData(ImageLayerA, One)
     IN  TranslationX(AnimatedStyle(LayerElement(item, One), item, 200, 1000,
                                    None).transform) = Num(110)

\* C19 witness: a tracking frame at offset 250 in the wide viewport
\* (compensation 2) moved the scaled video layer.
TrackedScaledLayer ==
  /\ Tracked
  /\ layers = Some(2)
  /\ state.moveX = 250
  /\ compensate = Num(2)
  /\ TranslationX(dom.layers[2].transform) = Num(-130)

\* C20: after a tracking frame at pointer offset m with
\* 0 <= 2 * m / innerWidth <= 1, the opacity of every layer that has an opacity
\* range [o0, o1] is o0 + (o1 - o0) * (2 * m / innerWidth).
TrackingOpacityIsLerp ==
  Tracked =>
    \A i \in 1..Val(layers) :
      LET item == allLayersData[i]
          frac == RMul(Rat(state.moveX, window.innerWidth), Num(2))
      IN  (IsSome(item.opacity) /\ ~RLess(frac, Zero) /\ ~RLess(One, frac))
            => dom.layers[i].opacity
                 = Some(RAdd(Val(item.opacity)[1],
                             RMul(RSub(Val(item.opacity)[2], Val(item.opacity)[1]),
                                  frac)))

\* C20 witness: range [1/5, 4/5], viewport 1000, offset 250: the tracking
\* frame wrote opacity 1/2.
TrackedHalfOpacity ==
  /\ Tracked
  /\ layers = Some(2)
  /\ state.moveX = 250
  /\ window.innerWidth = 1000
  /\ allLayersData[1].opacity = Some(<<Rat(1, 5), Rat(4, 5)>>)
  /\ dom.layers[1].opacity = Some(Rat(1, 2))

\* C21: the opacity written to a layer that has an opacity range [o0, o1] lies
\* between o0 and o1 inclusive, for every pointer offset (negative, or larger
\* than half the viewport width): the interpolation fraction is clamped.
OpacityWithinRange ==
  IsSome(layers) =>
    \A i \in 1..Val(layers) :
      (i <= Len(allLayersData) /\ IsSome(allLayersData[i].opacity)
         /\ IsSome(dom.layers[i].opacity))
        => /\ ~RLess(Val(dom.layers[i].opacity), Val(allLayersData[i].opacity)[1])
           /\ ~RLess(Val(allLayersData[i].opacity)[2], Val(dom.layers[i].opacity))

\* The authored descriptor of layer i of the parallax dataset without particles.
Authored(i) == ParallaxPlainDto.payload[i]

\* The resize handler has just run in parallax mode.
Resized ==
  /\ lastEvent = "resize"
  /\ "window.resize" \in listeners
  /\ ~simpleVideoMode

\* C22: after any sequence of resize events each layer's base translation
\* (tx, ty) is its authored translation times the current compensation factor,
\* never a product of earlier factors; resized to a viewport of 2 * baseWidth,
\* the factor is 2 and the translation twice the authored one.
ResizeNeverCompounds ==
  /\ \A i \in 1..Len(allLayersData) :
       /\ allLayersData[i].baseTransform[5]
            = RMul(Num(Authored(i).transform[5]), compensate)
       /\ allLayersData[i].baseTransform[6]
            = RMul(Num(Authored(i).transform[6]), compensate)
  /\ (Resized /\ window.innerWidth = 2 * baseWidth)
       => /\ compensate = Num(2)
          /\ \A i \in 1..Len(allLayersData) :
               /\ allLayersData[i].baseTransform[5] = Num(2 * Authored(i).transform[5])
               /\ allLayersData[i].baseTransform[6] = Num(2 * Authored(i).transform[6])
               /\ IsSome(layers)
                    => dom.layers[i].transform.base = allLayersData[i].baseTransform

\* C22 witness: a dataset loaded below baseWidth (factor 1) has just been
\* resized to 2 * baseWidth: the first layer's base translation went from
\* (100, 50) to (200, 100).
ResizedToTwiceBaseWidth ==
  /\ Resized
  /\ window.innerWidth = 2 * baseWidth
  /\ layers = Some(2)
  /\ dom.layers[1].transform.base[5] = Num(200)
  /\ dom.layers[1].transform.base[6] = Num(100)

\* updateData has just run its parallax branch.
ParallaxLoaded ==
  /\ lastEvent = "updateData"
  /\ ~simpleVideoMode
  /\ ~Logged("warn")

\* C23: after every parallax updateData and every resize the compensation
\* factor is max(1, innerWidth / 1650); it is never below 1; and it scales
\* only tx and ty: a, b, c, d of each base transform and the compensated accel
\* and gravity are the authored ones whatever the viewport.
CompensationIsFlooredRatio ==
  /\ ~RLess(compensate, One)
  /\ (ParallaxLoaded \/ Resized) =>
       /\ LET ratio == Rat(window.innerWidth, 1650)
          IN  compensate = IF RLess(ratio, One) THEN One ELSE ratio
       /\ \A i \in 1..Len(allLayersData) :
            /\ \A k \in 1..4 :
                 allLayersData[i].baseTransform[k] = Num(Authored(i).transform[k])
            /\ allLayersData[i].aCompensated = Authored(i).a
            /\ allLayersData[i].gCompensated = Authored(i).g

\* C23 witness: a parallax dataset has just been loaded in the wide viewport:
\* the factor is 2 and the scaled video layer keeps its a = d = 2.
LoadedInWideViewport ==
  /\ ParallaxLoaded
  /\ window.innerWidth = 3300
  /\ compensate = Num(2)
  /\ Len(allLayersData) = 2
  /\ allLayersData[2].baseTransform[1] = Num(2)
  /\ allLayersData[2].baseTransform[5] = Num(-80)

\* C24: in a particle tick, on the canvas as the latest resize left it, every
\* particle whose y after the position update exceeds canvas height plus its
\* own height ends the tick with y < 0 and 0 <= x < canvas width.
RecycledAboveCanvas ==
  \A i \in 1..Len(systems) :
    \A k \in 1..Len(systems[i].particles), r \in RandomDraws :
      LET p == systems[i].particles[k]
          c == systems[i].canvas
          q == _tickParticle(p, c.width, c.height, r)
      IN  RLess(RAdd(Num(c.height), p.height), RAdd(p.y, p.speed))
            => /\ RLess(q.y, Zero)
               /\ ~RLess(q.x, Zero)
               /\ RLess(q.x, Num(c.width))

\* C24 witness: on a canvas whose height a resize reduced to 100, a particle
\* frame has just recycled the particle to y = -height.
RecycledAfterShrink ==
  /\ lastEvent = "particleFrame"
  /\ particleSystem # 0
  /\ systems[particleSystem].canvas.height = 100
  /\ Len(systems[particleSystem].particles) = 1
  /\ systems[particleSystem].particles[1].y
       = RSub(Zero, systems[particleSystem].particles[1].height)

\* C25: a resize event in parallax mode on a loaded dataset leaves EngineState
\* unchanged, keeps the layer elements and keeps in the container the canvas
\* the running particle system draws on, for every loaded descriptor, one
\* without ordinary layers included.
ResizeKeepsElements ==
  [][(lastEvent' = "resize" /\ "window.resize" \in listeners /\ ~simpleVideoMode
        /\ IsSome(layers))
       => /\ state' = state
          /\ Len(dom'.layers) = Len(dom.layers)
          /\ dom'.canvas = dom.canvas
          /\ particleSystem' = particleSystem
          /\ particleSystem' # 0
               => systems'[particleSystem'].canvas.id = dom'.canvas]_vars

\* C30: from the end of _initParticles until dispose, after any ticks and
\* resizes, a ParticleSystem holds exactly the configured count of particles.
ParticleCountIsConfigured ==
  \A i \in 1..Len(systems) :
    (systems[i].load = "resolved" /\ ~systems[i].disposeCalled)
      => Len(systems[i].particles) = systems[i].config.count

\* C30 witness: a running system, its particle created on the 1000px canvas,
\* has just been resized to the 400px canvas and still holds its particle.
RunningSystemResized ==
  /\ Resized
  /\ particleSystem # 0
  /\ systems[particleSystem].load = "resolved"
  /\ systems[particleSystem].canvas.width = 400
  /\ systems[particleSystem].canvas.height = 200
  /\ Len(systems[particleSystem].particles) = 1
  /\ ParticleFramesOf(particleSystem) # {}

\* The particle systems' side of a state record: every system, and the pending
\* particle frames.
ParticleSide(w) == <<w.systems, {f \in w.rafQueue : f.ps # 0}>>
\* The engine's side: EngineState, the layer elements and the engine's frames.
EngineSide(w) == <<w.state, w.dom.layers, {f \in w.rafQueue : f.ps = 0}>>

\* What the pointer handlers and the engine's frames make of the current state:
\* enter, move, leave (also bound to blur), a tracking frame, and a homing
\* frame after a leave.
AfterEngineSteps ==
  LET left == _handleMouseLeave(World)
  IN  {_handleMouseEnter(World, x) : x \in PageXs}
        \cup {_handleMouseMove(World, x) : x \in PageXs}
        \cup {left}
        \cup {_animate(Dequeued(f), None) : f \in {g \in rafQueue : g.cb = "animate"}}
        \cup {_resetPosition([left EXCEPT !.rafQueue = @ \ {f}], dt) :
                f \in {g \in left.rafQueue : g.cb = "resetPosition"},
                dt \in FrameDeltas}

\* C26: pointer-enter/move/leave/blur events and the engine's tracking and
\* homing frames leave every particle system and every pending particle frame
\* as they are, and a particle tick leaves EngineState, the layer elements and
\* the engine's pending frames as they are.
EngineAndParticlesIndependent ==
  /\ \A r \in AfterEngineSteps : ParticleSide(r) = ParticleSide(World)
  /\ \A f \in {g \in rafQueue : g.cb = "tick"} :
       \A rnd \in Draws(Len(systems[f.ps].particles)) :
         EngineSide(_tick(Dequeued(f), f.ps, rnd)) = EngineSide(World)

\* C26 witness: the pointer has just moved over a parallax dataset while the
\* particle simulation runs: a tracking frame and a particle frame are pending.
MoveWhileParticlesRun ==
  /\ lastEvent = "mousemove"
  /\ Cardinality(EngineFrames) = 1
  /\ particleSystem # 0
  /\ Len(systems[particleSystem].particles) = 1
  /\ ParticleFramesOf(particleSystem) # {}

\* The pointer-move handler is registered and the engine is in parallax mode.
Tracking ==
  /\ container
  /\ "container.mousemove" \in listeners
  /\ ~simpleVideoMode

\* C27: after a burst of pointer-moves with no frame in between, exactly one
\* tracking frame is pending (each move cancelled the frame queued before),
\* the frame recomputes the transforms once and schedules nothing, and it
\* uses the offset of the last move of the burst.
MoveBurstCoalesces ==
  Tracking =>
    \A x1, x2 \in PageXs :
      LET r1 == _handleMouseMove(World, x1)
          r2 == _handleMouseMove(r1, x2)
      IN  /\ Cardinality(FramesOf(r1)) = 1
          /\ Cardinality(FramesOf(r2)) = 1
          /\ \A f \in FramesOf(r2) :
               LET a == _animate([r2 EXCEPT !.rafQueue = @ \ {f}], None)
               IN  /\ f.cb = "animate"
                   /\ f.id = r2.state.rafId
                   /\ r2.state.moveX = x2 - state.initX
                   /\ FramesOf(a) = {}
                   /\ (IsSome(layers) /\ ~a.thrown)
                        => \A i \in 1..Val(layers) :
                             Val(a.dom.layers[i].transform.m)[2]
                               = RMul(Num(x2 - state.initX), allLayersData[i].a)

\* C27 witness: a pointer-move has just queued a tracking frame over a loaded
\* dataset, and a further move of the burst changes the offset.
MoveQueuedBeforeNextMove ==
  /\ Tracking
  /\ lastEvent = "mousemove"
  /\ layers = Some(2)
  /\ Cardinality(EngineFrames) = 1
  /\ state.moveX = 250
  /\ _handleMouseMove(World, 0).state.moveX = 0

\* C28: from every reachable state, calling start() again changes nothing of
\* what the first call left: each pointer and window event has its one
\* listener, so its handler runs once per event, and a single destroy()
\* leaves no listener attached.
StartIsIdempotent ==
  LET s1 == start(World)
      s2 == start(s1)
  IN  /\ ~s1.thrown /\ ~s2.thrown
      /\ Program(s2) = Program(s1)
      /\ container => s2.listeners = ContainerListeners \cup WindowListeners
      /\ destroy(s2).listeners = {}

\* C28 witness: start() has just been called while a tracking frame was
\* pending, that is after an earlier start() and a pointer-move.
StartedAgain ==
  /\ lastEvent = "start"
  /\ listeners = ContainerListeners \cup WindowListeners
  /\ state.rafId # 0
  /\ \E f \in EngineFrames : f.cb = "animate"

RawIsParticle(item) == "type" \in DOMAIN item /\ item.type = "particle"

\* C29: on a started engine with a container, a raw layer list with a
\* particle entry keeps that entry's discriminator through _normalizeData,
\* and updateData on the result completes, builds layers from the other
\* entries only and starts a particle simulation.
LoadedParticleEntryStartsSimulation ==
  (container /\ life = "started") =>
    \A rawData \in RawDatasets :
      LET dto == _normalizeData(rawData)
          r == updateData(World, dto, TRUE)
      IN  \A k \in 1..Len(rawData.items) :
            RawIsParticle(rawData.items[k]) =>
              /\ IsParticle(dto.payload[k])
              /\ ~r.thrown
              /\ r.particleSystem # 0
              /\ r.layers = Some(Len(rawData.items) - 1)

\* The horizontal interval a particle is kept in on a canvas of this width.
WithinWrapBounds(p, width) ==
  /\ ~RLess(p.x, RSub(Zero, p.width))
  /\ ~RLess(RAdd(Num(width), p.width), p.x)

ResizeMovesOnlyOutsideParticles ==
  \A i \in 1..Len(systems), v \in Viewports :
    \A rnd \in Draws(Len(systems[i].particles)) :
      LET width == v.clientWidth
          height == v.clientHeight
          r == resize(World, i, width, height, rnd).systems[i]
      IN  /\ r.canvas.width = width /\ r.canvas.height = height
          /\ Len(r.particles) = Len(systems[i].particles)
          /\ \A k \in 1..Len(systems[i].particles) :
               LET p == systems[i].particles[k]
                   q == r.particles[k]
               IN  /\ q.y = p.y
                   /\ IF RLess(Num(width), p.x)
                      THEN ~RLess(q.x, Zero) /\ RLess(q.x, Num(width))
                      ELSE q.x = p.x

\* C32 witness: a running system on the 1000px canvas holds a particle at
\* x = 500, and resize(400, 200) puts it at x = 200 and leaves its y.
ParticleBeyondNewWidthMoved ==
  /\ particleSystem # 0
  /\ systems[particleSystem].canvas.width = 1000
  /\ Len(systems[particleSystem].particles) = 1
  /\ systems[particleSystem].particles[1].x = Num(500)
  /\ LET r == resize(World, particleSystem, 400, 200,
                     <<[x |-> Rat(1, 2), y |-> Zero]>>).systems[particleSystem]
     IN  /\ r.particles[1].x = Num(200)
         /\ r.particles[1].y = systems[particleSystem].particles[1].y
         /\ r.canvas.width = 400

\* C33: a tracking frame and a homing frame leave the per-layer derived data
\* (base transform, compensated acceleration and gravity) as they found it;
\* the data changes only in updateData, resize and destroy.
FramesNeverWriteLayerData ==
  [][/\ lastEvent' \in {"trackingFrame", "homingFrame"}
          => allLayersData' = allLayersData
     /\ allLayersData' # allLayersData
          => lastEvent' \in {"updateData", "resize", "destroy"}]_vars

\* C33 witness: a homing frame has just written the style of both layers of
\* the loaded dataset, midway back from a pointer offset.
HomingFrameStyledLayers ==
  /\ lastEvent = "homingFrame"
  /\ layers = Some(2)
  /\ Len(allLayersData) = 2
  /\ state.moveX # 0
  /\ HomingPending
  /\ \A i \in 1..2 : IsSome(dom.layers[i].transform.m)

\* C34: in every reachable state, state.rafId is 0 exactly when no engine
\* animation frame is pending.
RafIdZeroIffNoFramePending ==
  (state.rafId = 0) <=> (EngineFrames = {})

\* C35: when a homing loop has run to completion, every layer that has an
\* opacity range shows the at-rest opacity, the first value of its range,
\* whatever the pointer offset the loop started from.
HomingEndsAtRestOpacity ==
  (HomingDone /\ IsSome(layers)) =>
    \A i \in 1..Val(layers) :
      IsSome(allLayersData[i].opacity)
        => dom.layers[i].opacity = Some(Val(allLayersData[i].opacity)[1])

RAbs(p) == IF RLess(p, Zero) THEN RSub(Zero, p) ELSE p

\* The magnitude of the x-offset the first layer's style shows: the move term
\* of its matrix, the effective offset times the layer's acceleration.
ShownMove(w) == RAbs(Val(w.dom.layers[1].transform.m)[2])

\* The homing frame f of w run at time t.
HomingFrameAt(w, f, t) ==
  _resetPosition([w EXCEPT !.rafQueue = @ \ {f}, !.now = t], t)

\* C36: when a homing frame has just rendered and the loop goes on, the next
\* homing frame shows an offset of no greater magnitude, whether it follows
\* directly or after a further pointer-leave or window-blur.
HomingOffsetNeverGrows ==
  (lastEvent = "homingFrame" /\ ~thrown /\ HomingPending /\ layers = Some(2)) =>
    \A dt \in FrameDeltas :
      /\ \A f \in EngineFrames :
           ~RLess(ShownMove(World), ShownMove(HomingFrameAt(World, f, now + dt)))
      /\ LET l == _handleMouseLeave(World)
         IN  \A f \in FramesOf(l) :
               ~RLess(ShownMove(World), ShownMove(HomingFrameAt(l, f, now + dt)))

\* C37: a resize event arriving while the engine holds no layer elements
\* (before any updateData, or after an updateData with an unknown type)
\* builds none: the engine holds no layer element after it either.
ResizeCreatesNoLayers ==
  [][(lastEvent' = "resize" /\ ~IsSome(layers))
       => (~IsSome(layers') \/ layers' = Some(0))]_vars

\* C38: in every reachable state, a ParticleSystem that is not disposed is
\* the one the engine references, so at most one is not disposed; a system
\* built for an earlier dataset is disposed when the next one exists.
OnlyReferencedSystemIsLive ==
  \A i \in 1..Len(systems) :
    ~systems[i].disposed => particleSystem = i

\* C38 witness: the dataset was switched while the first system's preload
\* was pending; the first is disposed and the second, not disposed, is the
\* referenced one.
SwitchedWhilePreloadPending ==
  /\ Len(systems) = 2
  /\ systems[1].load = "pending" /\ systems[1].disposed
  /\ ~systems[2].disposed
  /\ particleSystem = 2

\* The caller's descriptor entry of layer i as the engine's entry shows it:
\* `...item` copies the scalar fields and shares the transform and opacity
\* arrays with the caller's object.
HeldItem(i) ==
  [ type |-> allLayersData[i].type, src |-> allLayersData[i].src,
    width |-> allLayersData[i].width, height |-> allLayersData[i].height,
    transform |-> allLayersData[i].transform, opacity |-> allLayersData[i].opacity,
    blur |-> allLayersData[i].blur, a |-> allLayersData[i].a, g |-> allLayersData[i].g,
    f |-> allLayersData[i].f, deg |-> allLayersData[i].deg ]

HeldDescriptor ==
  [ type |-> "parallax", payload |-> [i \in 1..Len(allLayersData) |-> HeldItem(i)] ]

\* C39: in every reachable state the authored fields of each loaded entry,
\* its transform array and coefficients, are those of the descriptor as it
\* was passed in; and loading that descriptor again at the viewport width
\* the current base transforms were computed for yields the same base
\* transforms.
DescriptorsNeverModified ==
  /\ \A i \in 1..Len(allLayersData) : HeldItem(i) = Authored(i)
  /\ (Len(allLayersData) > 0 /\ compensate = _calcCompensate(World).compensate)
       => LET r == updateData(World, HeldDescriptor, TRUE)
          IN  /\ ~r.thrown
              /\ Len(r.allLayersData) = Len(allLayersData)
              /\ \A i \in 1..Len(allLayersData) :
                   r.allLayersData[i].baseTransform = allLayersData[i].baseTransform

\* C39 witness: a tracking frame has just run on a dataset resized to the
\* wide viewport (factor 2), and loading the descriptor again gives the
\* first layer the same base translation, twice the authored one.
ReloadAfterResizeAndFrame ==
  /\ lastEvent = "trackingFrame"
  /\ layers = Some(2)
  /\ compensate = Num(2)
  /\ window.innerWidth = 2 * baseWidth
  /\ allLayersData[1].baseTransform[5] = Num(200)
  /\ updateData(World, HeldDescriptor, TRUE).allLayersData[1].baseTransform[5]
       = Num(200)

\* The held layer elements are as many as the entries of allLayersData, and
\* element i shows the media and the base matrix of entry i.
LayersMatchLayerData ==
  IsSome(layers) =>
    /\ Val(layers) = Len(allLayersData)
    /\ Val(layers) = Len(dom.layers)
    /\ \A i \in 1..Val(layers) :
         /\ dom.layers[i].child.tag
              = (IF allLayersData[i].type = "video" THEN "video" ELSE "img")
         /\ dom.layers[i].transform.base = allLayersData[i].baseTransform

\* C40: whenever the engine holds a layer element list, the list matches the
\* derived layer data entry by entry, and its elements were built from the
\* current descriptor: a list with elements comes to be held only in the
\* updateData call that passes the descriptor.
LayersBuiltFromCurrentDescriptor ==
  [][/\ LayersMatchLayerData'
     /\ (IsSome(layers') /\ Val(layers') > 0 /\ layers' # layers)
          => lastEvent' = "updateData"]_vars

====
